---- MODULE Spec2Model ----
(***************************************************************************)
(* A model of the NixOS installer (pkg/installer, pkg/utils, pkg/validate, *)
(* pkg/config).  One provisioning run is the linear procedure              *)
(* installer.Run: it reads the configuration, captures the block-device    *)
(* inventory, and issues an ordered list of external commands through the  *)
(* command gateway (utils.Execute, utils.ExecuteSilent,                    *)
(* utils.ExecuteStdOut).                                                   *)
(*                                                                         *)
(* Text is modelled as sequences of tokens: a command-line word is a       *)
(* sequence of tokens, so that prefix trimming, case folding, substring    *)
(* search and suffixing ("%s-part1") are computed rather than assumed.     *)
(***************************************************************************)
EXTENDS Integers, Sequences, FiniteSets, TLC

VARIABLES
    execute,          \* *execute: the -run flag (FALSE is dry run)
    executeInstall,   \* *executeInstall: the -install flag
    gateway,          \* which revision of ExecuteStdOut the build links
    pc,               \* position of Run in installer.go
    i,                \* index of the next command of the current block
    d,                \* index of the data disk of the reset loop
    configFile,       \* what the -config path held when it was read
    configData,       \* the Config returned by ReadConfig
    mountpointsJSON,  \* the inventory snapshot captured from lsblk
    mountpoints,      \* the list UnmountAll is working through
    calls,            \* every gateway call so far, in order
    last,             \* the last gateway call: policy, ran, nonzero exit
    bestEffortFailed, \* some ExecuteSilent command exited non-zero
    failure,          \* what else failed: command, config, resolver, file
    nixOSConfigDefault, \* the text Run read from configuration.nix
    fileOps,          \* the os.ReadFile / os.WriteFile calls so far, in order
    nixOSConfig,      \* the text Run wrote to configuration.nix
    printed,          \* the install command Run printed for the operator
    hostIdInjected,   \* the host id the patch step wrote
    status            \* running, completed, panicked, fatal

vars == <<execute, executeInstall, gateway, pc, i, d, configFile, configData,
          mountpointsJSON, mountpoints, calls, last, bestEffortFailed, failure,
          nixOSConfigDefault, fileOps, nixOSConfig, printed, hostIdInjected,
          status>>

(***************************************************************************)
(* Bounds of the model.                                                    *)
(***************************************************************************)
MaxDisks == 2
MaxEntries == 1
MaxText == 2

(***************************************************************************)
(* Words.                                                                  *)
(***************************************************************************)
W(s) == <<s>>

RECURSIVE Words(_)
Words(ss) == IF ss = <<>> THEN <<>> ELSE <<W(Head(ss))>> \o Words(Tail(ss))

ById == "/dev/disk/by-id/"

IsPrefix(p, s) == Len(p) <= Len(s) /\ SubSeq(s, 1, Len(p)) = p

\* strings.TrimPrefix
TrimPrefix(s, p) == IF IsPrefix(p, s) THEN SubSeq(s, Len(p) + 1, Len(s)) ELSE s

RECURSIVE TrimLeft(_)
TrimLeft(s) == IF s # <<>> /\ Head(s) = " " THEN TrimLeft(Tail(s)) ELSE s

RECURSIVE TrimRight(_)
TrimRight(s) ==
    IF s # <<>> /\ s[Len(s)] = " " THEN TrimRight(SubSeq(s, 1, Len(s) - 1)) ELSE s

\* strings.TrimSpace
TrimSpace(s) == TrimRight(TrimLeft(s))

LowerOf(c) ==
    CASE c = "A" -> "a"
      [] c = "B" -> "b"
      [] c = "USB-" -> "usb-"
      [] c = "NVME-" -> "nvme-"
      [] OTHER -> c

\* strings.ToLower
ToLower(s) == [k \in 1..Len(s) |-> LowerOf(s[k])]

\* strings.Contains
Contains(s, sub) ==
    \E k \in 0..(Len(s) - Len(sub)) : SubSeq(s, k + 1, k + Len(sub)) = sub

(***************************************************************************)
(* installer.go constants.                                                 *)
(***************************************************************************)
mountPoint == "/mnt/nixos"
mountPointBoot == "/mnt/nixos/boot"
mountPointUEFI == "/mnt/nixos/boot/efi"
mountPointNixOSConfig == "/mnt/nixos/boot/nixos"
mountPointHome == "/mnt/nixos/home"
mountPointNix == "/mnt/nixos/nix"
mountPointVar == "/mnt/nixos/var"
mountPointLib == "/mnt/nixos/var/lib"
mountPointDocker == "/mnt/nixos/var/lib/docker"
mountPointTmp == "/mnt/nixos/tmp"

zfsDatasetBoot == "boot"
zfsDatasetRoot == "root"
zfsDatasetHome == "home"
zfsDatasetNixStore == "nix"
zfsDatasetSwap == "swap"
zfsDatasetTmp == "tmp"
zfsDatasetVar == "var"
zfsDatasetLib == "var/lib"
zfsDatasetDocker == "var/lib/docker"

(***************************************************************************)
(* The environment: device identifiers, the block devices that exist, the  *)
(* configuration documents a run may be given.                             *)
(***************************************************************************)
DevA == <<ById, "usb-", "A">>
DevB == <<ById, "nvme-", "B">>
DevC == <<ById, "nvme-", "B", "2">>
\* a regular file, and a character device such as /dev/null
NotDev == <<"/tmp/", "f">>
CharDev == <<"/dev/", "null">>

\* os.Stat: the error and the mode bits of a path.
Stat(path) ==
    CASE path \in {DevA, DevB, DevC} -> [err |-> "", mode |-> {"ModeDevice"}]
      [] path = CharDev -> [err |-> "", mode |-> {"ModeDevice", "ModeCharDevice"}]
      [] path = NotDev -> [err |-> "", mode |-> {}]
      [] OTHER -> [err |-> "not exist", mode |-> {}]

NoConfig == [kind |-> "none"]

RECURSIVE SeqsUpTo(_, _)
SeqsUpTo(S, n) ==
    IF n = 0 THEN {<<>>}
    ELSE LET shorter == SeqsUpTo(S, n - 1)
         IN  shorter \cup {Append(s, x) : s \in shorter, x \in S}

DiskLists == SeqsUpTo({DevB, DevC, NotDev}, MaxDisks)

\* A parsed configuration document (the fields Run reads).
Documents ==
    [kind : {"config"},
     flake : {<<>>, W("flk")},
     hostId : {<<>>, W("abc12345")},
     configEnabled : BOOLEAN,
     uefiDisk : {DevA, NotDev},
     uefiLabel : {W("ESP")},
     uefiSize : {W("4GiB")},
     poolName : {W("zpool")},
     compression : {TRUE},
     encryption : {FALSE},
     mirror : BOOLEAN,
     stripe : BOOLEAN,
     disks : DiskLists,
     swapEnabled : BOOLEAN,
     swapSize : {W("8GiB")}]

\* A document like configs/vsphere-template.yaml.
TemplateDocument ==
    [kind |-> "config", flake |-> W("flk"), hostId |-> W("abc12345"),
     configEnabled |-> FALSE, uefiDisk |-> DevA, uefiLabel |-> W("ESP"),
     uefiSize |-> W("4GiB"), poolName |-> W("zpool"), compression |-> TRUE,
     encryption |-> FALSE, mirror |-> FALSE, stripe |-> FALSE,
     disks |-> <<DevB>>, swapEnabled |-> FALSE, swapSize |-> W("8GiB")]

\* Documents that name the character device as boot device or as data disk.
CharDeviceDocuments ==
    {[TemplateDocument EXCEPT !.uefiDisk = CharDev],
     [TemplateDocument EXCEPT !.disks = <<CharDev>>]}

\* What the -config path may hold.
ConfigFiles ==
    {[kind |-> "missing"], [kind |-> "unreadable"], [kind |-> "badyaml"]}
        \cup Documents \cup CharDeviceDocuments

(***************************************************************************)
(* pkg/utils: IsValidBlockDevice.                                          *)
(***************************************************************************)
IsValidBlockDevice(device) ==
    LET info == Stat(device)
    IN  IF info.err = "not exist" THEN FALSE
        ELSE IF info.err # "" THEN FALSE
        ELSE "ModeDevice" \in info.mode

(***************************************************************************)
(* pkg/config: validateConfig and ReadConfig.  The result of either is a   *)
(* record [config, err]; err = "" is Go's nil error.                       *)
(***************************************************************************)
validateConfig(c) ==
    IF c.flake = <<>> THEN "flake not specified"
    ELSE IF ~IsValidBlockDevice(c.uefiDisk) THEN "Invalid block device"
    ELSE IF \E k \in 1..Len(c.disks) : ~IsValidBlockDevice(c.disks[k])
         THEN "Invalid block device"
    ELSE IF Len(c.disks) > 1 /\ c.mirror /\ c.stripe
         THEN "can't mirror and stripe, pick one"
    ELSE IF Len(c.disks) > 1 /\ ~c.mirror /\ ~c.stripe
         THEN "must mirror or stripe, pick one"
    ELSE ""

ReadConfig(file) ==
    IF file.kind = "missing" THEN [config |-> NoConfig, err |-> "config file not found"]
    ELSE IF file.kind = "unreadable" THEN [config |-> NoConfig, err |-> "read error"]
    ELSE IF file.kind = "badyaml" THEN [config |-> NoConfig, err |-> "yaml error"]
    ELSE IF validateConfig(file) # "" THEN [config |-> NoConfig, err |-> validateConfig(file)]
    ELSE [config |-> file, err |-> ""]

(***************************************************************************)
(* pkg/validate and pkg/utils: the command gateway.  exitOk says whether   *)
(* the program, if it is run, exits zero.  A result is [ran, end]: end is  *)
(* "dry" (would-run notice), "ok", "failed" (logged, continuing), "panic"  *)
(* (validate.Panic) or "fatal" (validate.Error).                           *)
(***************************************************************************)
\* Execute with the exit status dropped, as ExecuteSilent does.
ExecuteIgnoringExit(mode, exitOk) ==
    IF mode
    THEN [ran |-> TRUE, end |-> IF exitOk THEN "ok" ELSE "failed"]
    ELSE [ran |-> FALSE, end |-> "dry"]

\* ExecuteSilent with the exit status checked, as Execute does.
ExecuteSilentPanics(mode, exitOk) ==
    IF mode
    THEN [ran |-> TRUE, end |-> IF exitOk THEN "ok" ELSE "panic"]
    ELSE [ran |-> FALSE, end |-> "dry"]

Execute(mode, exitOk) ==
    IF mode
    THEN [ran |-> TRUE, end |-> IF exitOk THEN "ok" ELSE "panic"]
    ELSE [ran |-> FALSE, end |-> "dry"]

ExecuteSilent(mode, exitOk) ==
    IF mode
    THEN [ran |-> TRUE, end |-> IF exitOk THEN "ok" ELSE "failed"]
    ELSE [ran |-> FALSE, end |-> "dry"]

\* The empty string ExecuteStdOut returns when it does not run the program.
EmptyOutput == [kind |-> "empty"]

\* ExecuteStdOut as in pkg/utils/utils.go.
ExecuteStdOutUtils(mode, exitOk, output) ==
    IF ~mode
    THEN [ran |-> TRUE, end |-> IF exitOk THEN "ok" ELSE "fatal",
          out |-> IF exitOk THEN output ELSE EmptyOutput]
    ELSE [ran |-> FALSE, end |-> "dry", out |-> EmptyOutput]

\* ExecuteStdOut as in the earlier revision of the file (unnamed/part_005).
ExecuteStdOutEarlier(mode, exitOk, output) ==
    IF mode
    THEN [ran |-> TRUE, end |-> IF exitOk THEN "ok" ELSE "fatal",
          out |-> IF exitOk THEN output ELSE EmptyOutput]
    ELSE [ran |-> FALSE, end |-> "dry", out |-> EmptyOutput]

Gateways == {"utils.go", "part_005"}

ExecuteStdOut(gw, mode, exitOk, output) ==
    IF gw = "utils.go"
    THEN ExecuteStdOutUtils(mode, exitOk, output)
    ELSE ExecuteStdOutEarlier(mode, exitOk, output)

(***************************************************************************)
(* pkg/utils: GetMountpoints.  A snapshot is EmptyOutput or the listing    *)
(* lsblk printed: a sequence of [id, mountpoints]; a JSON null is the      *)
(* empty word (id) or the empty string (mount point).                      *)
(***************************************************************************)
InventoryEntries ==
    {[id |-> <<"usb-", "A">>, mountpoints |-> <<"/media/a", "/media/b">>],
     [id |-> <<"NVME-", "B", "2">>, mountpoints |-> <<"", "/data">>]}

Snapshots ==
    {[kind |-> "json", blockdevices |-> l] : l \in SeqsUpTo(InventoryEntries, MaxEntries)}

Normalise(deviceID) ==
    ToLower(TrimSpace(TrimPrefix(TrimPrefix(TrimPrefix(deviceID, <<ById>>),
                                            <<"usb-">>), <<"nvme-">>)))

RECURSIVE NonEmpty(_)
NonEmpty(mps) ==
    IF mps = <<>> THEN <<>>
    ELSE IF Head(mps) # "" THEN <<Head(mps)>> \o NonEmpty(Tail(mps))
    ELSE NonEmpty(Tail(mps))

RECURSIVE MountpointsOf(_, _)
MountpointsOf(devices, deviceID) ==
    IF devices = <<>> THEN <<>>
    ELSE LET device == Head(devices)
             rest == MountpointsOf(Tail(devices), deviceID)
         IN  IF device.id = <<>> THEN rest
             ELSE IF Contains(ToLower(TrimSpace(device.id)), deviceID)
                  THEN NonEmpty(device.mountpoints) \o rest
                  ELSE rest

GetMountpoints(deviceID, data) ==
    IF data.kind # "json"
    THEN [mountpoints |-> <<>>, err |-> "error unmarshalling JSON"]
    ELSE [mountpoints |-> MountpointsOf(data.blockdevices, Normalise(deviceID)),
          err |-> ""]

(***************************************************************************)
(* installer.go: the commands of Run, block by block, in source order.     *)
(* A command is [policy, argv]; policy "strict" is utils.Execute, "silent" *)
(* is utils.ExecuteSilent.                                                 *)
(***************************************************************************)
Strict(ss) == [policy |-> "strict", argv |-> ss]
Silent(ss) == [policy |-> "silent", argv |-> ss]

Opt(cond, cmds) == IF cond THEN cmds ELSE <<>>

MkdirPaths ==
    <<mountPoint, mountPointBoot, mountPointUEFI, mountPointNixOSConfig,
      mountPointHome, mountPointNix, mountPointVar, mountPointLib,
      mountPointDocker, mountPointTmp>>

MkdirCommands ==
    [k \in 1..Len(MkdirPaths) |-> Strict(Words(<<"mkdir", "-p", MkdirPaths[k]>>))]

\* UnmountAll as a mutant that unmounts nothing.
UnmountCommandsNone(mps) == <<>>

UnmountCommands(mps) ==
    [k \in 1..Len(mps) |-> Strict(Words(<<"umount", mps[k]>>))]

partitionNameUEFI(c) == c.uefiDisk \o <<"-part1">>
partitionNameNixOSConfig(c) == c.uefiDisk \o <<"-part2">>

Parted(c) ==
    Words(<<"parted", "--script", "--fix", "--align", "optimal">>)
        \o <<c.uefiDisk, W("--")>>

UEFICommands(c) ==
    <<Strict(<<W("sgdisk"), W("--zap-all"), c.uefiDisk>>),
      Silent(<<W("partprobe")>>),
      Strict(Parted(c) \o Words(<<"mklabel", "gpt">>)),
      Strict(Parted(c) \o <<W("mkpart"), c.uefiLabel, W("fat32"), W("1MiB"), c.uefiSize>>),
      Strict(Parted(c) \o Words(<<"set", "1", "esp", "on">>))>>
    \o Opt(c.configEnabled,
           <<Strict(Parted(c) \o <<W("mkpart"), W("nixos-config"), W("xfs"),
                                   c.uefiSize, W("100%")>>)>>)
    \o <<Strict(<<W("mkfs.vfat"), W("-n"), W("EFI"), partitionNameUEFI(c)>>)>>
    \o Opt(c.configEnabled,
           <<Strict(<<W("mkfs.xfs"), W("-f"), partitionNameNixOSConfig(c)>>)>>)

DestroyCommands(c) ==
    <<Silent(<<W("zpool"), W("destroy"), W("-f"), c.poolName>>)>>

\* The reset of one data disk as a mutant whose labelclear must succeed.
DiskResetCommandsStrict(zfsDisk) ==
    <<Strict(<<W("zpool"), W("labelclear"), W("-f"), zfsDisk>>),
      Strict(<<W("sgdisk"), W("--zap-all"), zfsDisk>>)>>

\* The reset of one data disk as a mutant that zaps before it clears the label.
DiskResetCommandsZapFirst(zfsDisk) ==
    <<Strict(<<W("sgdisk"), W("--zap-all"), zfsDisk>>),
      Silent(<<W("zpool"), W("labelclear"), W("-f"), zfsDisk>>)>>

DiskResetCommands(zfsDisk) ==
    <<Silent(<<W("zpool"), W("labelclear"), W("-f"), zfsDisk>>),
      Strict(<<W("sgdisk"), W("--zap-all"), zfsDisk>>)>>

\* The fixed tuning block of the pool (installer.go 425-442).
BaselineOptions ==
    Words(<<"-O", "acltype=posixacl", "-O", "atime=off", "-O", "relatime=off",
            "-O", "canmount=noauto", "-O", "logbias=throughput",
            "-O", "mountpoint=none", "-O", "normalization=formD",
            "-O", "primarycache=metadata", "-O", "recordsize=32K",
            "-O", "secondarycache=metadata", "-O", "sync=standard",
            "-O", "dnodesize=auto", "-O", "xattr=sa",
            "-o", "autotrim=on", "-o", "ashift=12">>)

\* The redundancy words with a "stripe" word for a striped pool.
RedundancyArgsStripeWord(c) ==
    IF Len(c.disks) > 1
    THEN IF c.mirror THEN <<W("mirror")>>
         ELSE IF c.stripe THEN <<W("stripe")>>
         ELSE <<>>
    ELSE <<>>

\* The redundancy words without the test of the number of disks.
RedundancyArgsAnyCount(c) ==
    IF c.mirror THEN <<W("mirror")>> ELSE <<>>

\* The redundancy words appended after the pool name (installer.go 450-458).
RedundancyArgs(c) ==
    IF Len(c.disks) > 1
    THEN IF c.mirror THEN <<W("mirror")>>
         ELSE IF c.stripe THEN <<>>
         ELSE <<>>
    ELSE <<>>

\* zpoolArgs with the encryption options appended before the compression one.
ZpoolArgsEncryptionFirst(c) ==
    Words(<<"create", "-f">>)
        \o Opt(c.encryption, Words(<<"-O", "encryption=aes-256-gcm",
                                     "-O", "keyformat=passphrase",
                                     "-O", "keylocation=prompt">>))
        \o Opt(c.compression, Words(<<"-O", "compression=zstd-3">>))
        \o BaselineOptions \o Words(<<"-R", mountPoint>>) \o <<c.poolName>>
        \o RedundancyArgs(c) \o c.disks

\* zpoolArgs as Run assembles it, append by append (installer.go 410-461).
ZpoolArgs(c) ==
    LET a0 == Words(<<"create", "-f">>)
        a1 == IF c.compression
              THEN a0 \o Words(<<"-O", "compression=zstd-3">>) ELSE a0
        a2 == IF c.encryption
              THEN a1 \o Words(<<"-O", "encryption=aes-256-gcm">>)
                      \o Words(<<"-O", "keyformat=passphrase">>)
                      \o Words(<<"-O", "keylocation=prompt">>)
              ELSE a1
        a3 == a2 \o BaselineOptions
        a4 == a3 \o Words(<<"-R", mountPoint>>)
        a5 == Append(a4, c.poolName)
        a6 == a5 \o RedundancyArgs(c)
    IN  a6 \o c.disks

\* The pool block as a mutant that creates the pool without the rescan.
PoolCreateCommandsNoRescan(c) ==
    <<Strict(<<W("zpool")>> \o ZpoolArgs(c))>>

PoolCreateCommands(c) ==
    <<Silent(<<W("partprobe")>>),
      Strict(<<W("zpool")>> \o ZpoolArgs(c))>>

\* path.Join(zfsPoolName, dataset)
DatasetPath(c, dataset) == c.poolName \o <<"/", dataset>>

\* A filesystem dataset as a mutant created with the default mountpoint.
CreateFilesystemNoLegacy(c, dataset) ==
    Strict(<<W("zfs"), W("create"), DatasetPath(c, dataset)>>)

CreateFilesystem(c, dataset) ==
    Strict(<<W("zfs"), W("create"), W("-o"), W("mountpoint=legacy"),
             DatasetPath(c, dataset)>>)

\* The swap volume as a mutant that is given a mountpoint like a filesystem.
CreateSwapWithMountpoint(c) ==
    <<Strict(<<W("zfs"), W("create"), W("-o"), W("mountpoint=legacy"), W("-V"),
               c.swapSize, DatasetPath(c, zfsDatasetSwap)>>)>>

CreateSwap(c) ==
    <<Strict(<<W("zfs"), W("create"), W("-V"), c.swapSize,
               DatasetPath(c, zfsDatasetSwap)>>)>>

DatasetCommands(c) ==
    <<CreateFilesystem(c, zfsDatasetRoot), CreateFilesystem(c, zfsDatasetBoot),
      CreateFilesystem(c, zfsDatasetHome), CreateFilesystem(c, zfsDatasetNixStore)>>
    \o CreateSwap(c)
    \o <<CreateFilesystem(c, zfsDatasetTmp), CreateFilesystem(c, zfsDatasetVar),
         CreateFilesystem(c, zfsDatasetLib), CreateFilesystem(c, zfsDatasetDocker)>>

MountZfs(c, dataset, target) ==
    Strict(<<W("mount"), W("-o"), W("X-mount.mkdir"), W("-t"), W("zfs"),
             DatasetPath(c, dataset), W(target)>>)

\* The mount block as a mutant that mounts var/lib before var.
MountCommandsLibFirst(c) ==
    <<MountZfs(c, zfsDatasetRoot, mountPoint),
      MountZfs(c, zfsDatasetBoot, mountPointBoot),
      Strict(<<W("mount"), W("-t"), W("vfat"), W("-o"),
               W("fmask=0077,dmask=0077,iocharset=iso8859-1,X-mount.mkdir"),
               partitionNameUEFI(c), W(mountPointUEFI)>>),
      MountZfs(c, zfsDatasetHome, mountPointHome),
      MountZfs(c, zfsDatasetNixStore, mountPointNix),
      MountZfs(c, zfsDatasetLib, mountPointLib),
      MountZfs(c, zfsDatasetVar, mountPointVar),
      MountZfs(c, zfsDatasetDocker, mountPointDocker),
      MountZfs(c, zfsDatasetTmp, mountPointTmp)>>

MountCommands(c) ==
    <<MountZfs(c, zfsDatasetRoot, mountPoint),
      MountZfs(c, zfsDatasetBoot, mountPointBoot),
      Strict(<<W("mount"), W("-t"), W("vfat"), W("-o"),
               W("fmask=0077,dmask=0077,iocharset=iso8859-1,X-mount.mkdir"),
               partitionNameUEFI(c), W(mountPointUEFI)>>)>>
    \o Opt(c.configEnabled,
           <<Strict(<<W("mount"), W("-o"), W("X-mount.mkdir"), W("-t"), W("xfs"),
                      partitionNameNixOSConfig(c), W(mountPointNixOSConfig)>>)>>)
    \o <<MountZfs(c, zfsDatasetHome, mountPointHome),
         MountZfs(c, zfsDatasetNixStore, mountPointNix),
         MountZfs(c, zfsDatasetVar, mountPointVar),
         MountZfs(c, zfsDatasetLib, mountPointLib),
         MountZfs(c, zfsDatasetDocker, mountPointDocker),
         MountZfs(c, zfsDatasetTmp, mountPointTmp)>>

GenerateCommands ==
    <<Strict(Words(<<"nixos-generate-config", "--root", mountPoint>>))>>

\* The install block as a mutant that never calls the installer.
InstallCommandsNone(c) == <<>>

InstallCommands(c) ==
    <<Strict(Words(<<"nixos-install", "--verbose", "--root", mountPoint,
                     "--impure", "--flake">>) \o <<c.flake>>)>>

LsblkArgv ==
    Words(<<"lsblk", "--noheadings", "--json", "--output", "ID,MOUNTPOINTS">>)

MachineIdArgv == Words(<<"head", "-c", "8", "/etc/machine-id">>)

(***************************************************************************)
(* installer.go 769-771: the host-id patch of configuration.nix.  A text   *)
(* is a sequence of tokens; Marker is the three characters "\n{\n".        *)
(***************************************************************************)
Marker == "\n{\n"

Texts == SeqsUpTo({Marker, "x"}, MaxText)

nixOSHostID(id) == <<"  networking.hostId = \"">> \o id \o <<"\";\n">>

\* The replacement as a mutant that puts the line in the marker's place.
RECURSIVE ReplaceAllStringLosingMarker(_, _)
ReplaceAllStringLosingMarker(text, id) ==
    IF text = <<>> THEN <<>>
    ELSE IF Head(text) = Marker
         THEN nixOSHostID(id) \o <<"\n">>
                  \o ReplaceAllStringLosingMarker(Tail(text), id)
         ELSE <<Head(text)>> \o ReplaceAllStringLosingMarker(Tail(text), id)

\* regexp.ReplaceAllString(text, "\n{\n" + nixOSHostID + "\n")
RECURSIVE ReplaceAllString(_, _)
ReplaceAllString(text, id) ==
    IF text = <<>> THEN <<>>
    ELSE IF Head(text) = Marker
         THEN <<Marker>> \o nixOSHostID(id) \o <<"\n">>
                  \o ReplaceAllString(Tail(text), id)
         ELSE <<Head(text)>> \o ReplaceAllString(Tail(text), id)

\* What `head -c 8 /etc/machine-id` prints.
MachineId == [kind |-> "text", text |-> W("0f1e2d3c")]

\* string(output) of a captured output that is not parsed as JSON.
StringOf(out) == IF out.kind = "text" THEN out.text ELSE <<>>

(***************************************************************************)
(* The run.                                                                *)
(***************************************************************************)
NoCall == [policy |-> "none", ran |-> FALSE, nonzero |-> FALSE]

Init ==
    /\ execute \in BOOLEAN
    /\ executeInstall \in BOOLEAN
    /\ gateway \in Gateways
    /\ pc = "ReadConfig"
    /\ i = 1
    /\ d = 1
    /\ configFile = NoConfig
    /\ configData = NoConfig
    /\ mountpointsJSON = EmptyOutput
    /\ mountpoints = <<>>
    /\ calls = <<>>
    /\ last = NoCall
    /\ bestEffortFailed = FALSE
    /\ failure = "none"
    /\ nixOSConfigDefault = <<>>
    /\ fileOps = <<>>
    /\ nixOSConfig = <<>>
    /\ printed = <<>>
    /\ hostIdInjected = <<>>
    /\ status = "running"

Flags == <<execute, executeInstall, gateway>>
Data == <<configFile, configData, mountpointsJSON, mountpoints,
          nixOSConfigDefault, fileOps, nixOSConfig, printed, hostIdInjected>>
Log == <<calls, last, bestEffortFailed, failure>>

\* The status after a gateway call that ended with `end`: validate.Panic
\* panics, validate.Error exits, anything else returns to Run.
StatusAfter(end) ==
    CASE end = "panic" -> "panicked"
      [] end = "fatal" -> "fatal"
      [] OTHER -> "running"

\* One gateway call is recorded: the function called, the mode it was given,
\* the command line, whether the program really ran and how it exited.
Record(policy, mode, argv, r, exitOk) ==
    /\ calls' = Append(calls, [policy |-> policy, mode |-> mode,
                               argv |-> argv, ran |-> r.ran])
    /\ last' = [policy |-> policy, ran |-> r.ran, nonzero |-> r.ran /\ ~exitOk]
    /\ bestEffortFailed' = (bestEffortFailed \/ (policy = "silent" /\ r.ran /\ ~exitOk))
    /\ failure' = IF policy # "silent" /\ r.ran /\ ~exitOk THEN "command" ELSE failure
    /\ status' = StatusAfter(r.end)

\* The gateway function a command's policy selects.
Invoke(policy, mode, exitOk) ==
    IF policy = "strict" THEN Execute(mode, exitOk) ELSE ExecuteSilent(mode, exitOk)

\* Control moves on without a gateway call.
Goto(label) ==
    /\ pc' = label
    /\ i' = 1
    /\ UNCHANGED <<Log, status>>

\* Run is at block `label`: it issues the block's next command with the run's
\* mode, or leaves the block for `next` when none is left.
RunBlock(label, cmds, next) ==
    /\ status = "running"
    /\ pc = label
    /\ IF i > Len(cmds)
       THEN Goto(next)
       ELSE \E exitOk \in BOOLEAN :
              /\ Record(cmds[i].policy, execute, cmds[i].argv,
                        Invoke(cmds[i].policy, execute, exitOk), exitOk)
              /\ pc' = pc
              /\ i' = i + 1

\* installer.go 67-69
ReadConfigStep ==
    /\ status = "running"
    /\ pc = "ReadConfig"
    /\ \E file \in ConfigFiles :
         LET r == ReadConfig(file)
         IN  /\ configFile' = file
             /\ configData' = r.config
             /\ status' = IF r.err # "" THEN "fatal" ELSE "running"
             /\ failure' = IF r.err # "" THEN "config" ELSE failure
    /\ pc' = "lsblk"
    /\ UNCHANGED <<Flags, i, d, mountpointsJSON, mountpoints, calls, last,
                   bestEffortFailed, nixOSConfigDefault, fileOps, nixOSConfig,
                   printed, hostIdInjected>>

\* installer.go 77-87
CaptureMountpoints ==
    /\ status = "running"
    /\ pc = "lsblk"
    /\ \E exitOk \in BOOLEAN, listing \in Snapshots :
         LET r == ExecuteStdOut(gateway, TRUE, exitOk, listing)
         IN  /\ Record("capture", TRUE, LsblkArgv, r, exitOk)
             /\ mountpointsJSON' = r.out
    /\ pc' = "mkdir"
    /\ UNCHANGED <<Flags, i, d, configFile, configData, mountpoints,
                   nixOSConfigDefault, fileOps, nixOSConfig, printed,
                   hostIdInjected>>

\* installer.go 95-192
CreateDirectories ==
    /\ RunBlock("mkdir", MkdirCommands, "ResolveUEFI")
    /\ UNCHANGED <<Flags, d, Data>>

\* A resolver call of Run and the log.Fatal on its error.
Resolve(label, deviceID, next) ==
    /\ status = "running"
    /\ pc = label
    /\ LET r == GetMountpoints(deviceID, mountpointsJSON)
       IN  /\ mountpoints' = r.mountpoints
           /\ status' = IF r.err # "" THEN "fatal" ELSE "running"
           /\ failure' = IF r.err # "" THEN "resolver" ELSE failure
    /\ pc' = next
    /\ i' = 1
    /\ UNCHANGED <<Flags, d, configFile, configData, mountpointsJSON, calls, last,
                   bestEffortFailed, nixOSConfigDefault, fileOps, nixOSConfig,
                   printed, hostIdInjected>>

\* installer.go 200-207
ResolveUEFI == Resolve("ResolveUEFI", configData.uefiDisk, "UnmountUEFI")

\* utils.UnmountAll, called at installer.go 210 and 372
UnmountAll ==
    /\ \/ RunBlock("UnmountUEFI", UnmountCommands(mountpoints), "UEFI")
       \/ RunBlock("UnmountZFS", UnmountCommands(mountpoints), "ResetDisk")
    /\ UNCHANGED <<Flags, d, Data>>

\* installer.go 215-342
PrepareUEFI ==
    /\ RunBlock("UEFI", UEFICommands(configData), "Destroy")
    /\ UNCHANGED <<Flags, d, Data>>

\* installer.go 350-361, and the entry of the loop at 363
DestroyPool ==
    /\ RunBlock("Destroy", DestroyCommands(configData),
                IF Len(configData.disks) >= 1 THEN "ResolveZFS" ELSE "CreatePool")
    /\ d' = 1
    /\ UNCHANGED <<Flags, Data>>

\* installer.go 365-369
ResolveZFS == Resolve("ResolveZFS", configData.disks[d], "UnmountZFS")

\* installer.go 377-395, and the loop's next iteration
ResetDisk ==
    /\ RunBlock("ResetDisk", DiskResetCommands(configData.disks[d]),
                IF d < Len(configData.disks) THEN "ResolveZFS" ELSE "CreatePool")
    /\ d' = IF i > Len(DiskResetCommands(configData.disks[d])) /\ d < Len(configData.disks)
            THEN d + 1 ELSE d
    /\ UNCHANGED <<Flags, Data>>

\* installer.go 397-469
CreatePool ==
    /\ RunBlock("CreatePool", PoolCreateCommands(configData), "Datasets")
    /\ UNCHANGED <<Flags, d, Data>>

\* installer.go 477-585
CreateDatasets ==
    /\ RunBlock("Datasets", DatasetCommands(configData), "Mount")
    /\ UNCHANGED <<Flags, d, Data>>

\* installer.go 593-727
MountDirectories ==
    /\ RunBlock("Mount", MountCommands(configData), "Generate")
    /\ UNCHANGED <<Flags, d, Data>>

\* installer.go 735-742
GenerateConfig ==
    /\ RunBlock("Generate", GenerateCommands, "Patch")
    /\ UNCHANGED <<Flags, d, Data>>

\* validate.Error as a mutant that only logs the error.
ErrorLogged(err) == "running"

\* validate.Error(err): log.Fatal when err is not nil.
Error(err) == IF err THEN "fatal" ELSE "running"

\* installer.go 745 as a mutant that patches in a dry run too.
SkipPatchNever(mode) == FALSE

\* installer.go 745: `if !*execute`, the patch step is skipped.
SkipPatch(mode) == ~mode

\* installer.go 744-776: read configuration.nix, settle the host id, replace,
\* write back.  `text` is what the generator left in the file.
PatchHostID ==
    /\ status = "running"
    /\ pc = "Patch"
    /\ pc' = "Install"
    /\ i' = 1
    /\ UNCHANGED <<Flags, d, configFile, configData, mountpointsJSON, mountpoints,
                   printed>>
    /\ IF SkipPatch(execute)
       THEN UNCHANGED <<Log, status, nixOSConfigDefault, fileOps, nixOSConfig,
                        hostIdInjected>>
       ELSE \E text \in Texts,
               readOk \in BOOLEAN, exitOk \in BOOLEAN, writeOk \in BOOLEAN :
              IF ~readOk
              THEN /\ fileOps' = Append(fileOps, "ReadFile")
                   /\ status' = Error(TRUE)
                   /\ failure' = "file"
                   /\ UNCHANGED <<calls, last, bestEffortFailed, nixOSConfigDefault,
                                  nixOSConfig, hostIdInjected>>
              ELSE IF configData.hostId # <<>>
              THEN /\ nixOSConfigDefault' = text
                   /\ fileOps' = fileOps \o <<"ReadFile", "WriteFile">>
                   /\ status' = Error(~writeOk)
                   /\ failure' = IF writeOk THEN failure ELSE "file"
                   /\ nixOSConfig' = IF writeOk
                                     THEN ReplaceAllString(text, configData.hostId)
                                     ELSE nixOSConfig
                   /\ hostIdInjected' = IF writeOk THEN configData.hostId
                                        ELSE hostIdInjected
                   /\ UNCHANGED <<calls, last, bestEffortFailed>>
              ELSE LET r == ExecuteStdOut(gateway, execute, exitOk, MachineId)
                       id == StringOf(r.out)
                       written == r.end # "fatal" /\ writeOk
                   IN  /\ nixOSConfigDefault' = text
                       /\ fileOps' = fileOps \o (IF r.end = "fatal"
                                                 THEN <<"ReadFile">>
                                                 ELSE <<"ReadFile", "WriteFile">>)
                       /\ calls' = Append(calls, [policy |-> "capture", mode |-> execute,
                                                  argv |-> MachineIdArgv, ran |-> r.ran])
                       /\ last' = [policy |-> "capture", ran |-> r.ran,
                                   nonzero |-> r.ran /\ ~exitOk]
                       /\ UNCHANGED bestEffortFailed
                       /\ status' = IF r.end = "fatal" THEN "fatal" ELSE Error(~writeOk)
                       /\ failure' = IF r.end = "fatal" THEN "command"
                                     ELSE IF ~writeOk THEN "file" ELSE failure
                       /\ nixOSConfig' = IF written
                                         THEN ReplaceAllString(text, id)
                                         ELSE nixOSConfig
                       /\ hostIdInjected' = IF written THEN id ELSE hostIdInjected

\* installer.go 797: the command Run prints for the operator to run by hand.
ManualCommand(c) ==
    Words(<<"sudo", "-E", "nixos-install", "--verbose", "--root", mountPoint,
            "--impure", "--flake">>) \o <<c.flake>>

\* installer.go 778-805
Install ==
    /\ status = "running"
    /\ pc = "Install"
    /\ UNCHANGED <<Flags, d, configFile, configData, mountpointsJSON, mountpoints,
                   nixOSConfigDefault, fileOps, nixOSConfig, hostIdInjected>>
    /\ IF executeInstall /\ i <= Len(InstallCommands(configData))
       THEN \E exitOk \in BOOLEAN :
              /\ Record("strict", execute, InstallCommands(configData)[i].argv,
                        Execute(execute, exitOk), exitOk)
              /\ pc' = pc
              /\ i' = i + 1
              /\ UNCHANGED printed
       ELSE /\ pc' = "done"
            /\ i' = 1
            /\ status' = "completed"
            /\ printed' = IF executeInstall THEN printed
                          ELSE ManualCommand(configData)
            /\ UNCHANGED Log

Next ==
    \/ ReadConfigStep
    \/ CaptureMountpoints
    \/ CreateDirectories
    \/ ResolveUEFI
    \/ UnmountAll
    \/ PrepareUEFI
    \/ DestroyPool
    \/ ResolveZFS
    \/ ResetDisk
    \/ CreatePool
    \/ CreateDatasets
    \/ MountDirectories
    \/ GenerateConfig
    \/ PatchHostID
    \/ Install

Spec == Init /\ [][Next]_vars

(***************************************************************************)
(* The pool-creation block on its own: installer.go 410-469 applied to any *)
(* request, whatever its redundancy flags.                                 *)
(***************************************************************************)
ArgRequests ==
    {[TemplateDocument EXCEPT !.compression = co, !.encryption = en,
                              !.mirror = mi, !.stripe = st, !.disks = ds] :
        co \in BOOLEAN, en \in BOOLEAN, mi \in BOOLEAN, st \in BOOLEAN,
        ds \in SeqsUpTo({DevB, DevC}, MaxDisks)}

InitArgs ==
    /\ execute \in BOOLEAN
    /\ executeInstall = FALSE
    /\ gateway = "utils.go"
    /\ pc = "CreatePool"
    /\ i = 2
    /\ d = 1
    /\ configFile \in ArgRequests
    /\ configData = configFile
    /\ mountpointsJSON = EmptyOutput
    /\ mountpoints = <<>>
    /\ calls = <<>>
    /\ last = NoCall
    /\ bestEffortFailed = FALSE
    /\ failure = "none"
    /\ nixOSConfigDefault = <<>>
    /\ fileOps = <<>>
    /\ nixOSConfig = <<>>
    /\ printed = <<>>
    /\ hostIdInjected = <<>>
    /\ status = "running"

SpecArgs == InitArgs /\ [][CreatePool]_vars

(***************************************************************************)
(* The tail of Run on its own: installer.go 735-805 (generate, patch,      *)
(* install) applied to any request, with either ExecuteStdOut.             *)
(***************************************************************************)
PatchRequests ==
    {[TemplateDocument EXCEPT !.hostId = h, !.configEnabled = ce] :
        h \in {<<>>, W("abc12345")}, ce \in BOOLEAN}

InitPatch ==
    /\ execute \in BOOLEAN
    /\ executeInstall \in BOOLEAN
    /\ gateway \in Gateways
    /\ pc = "Generate"
    /\ i = 1
    /\ d = 1
    /\ configFile \in PatchRequests
    /\ configData = configFile
    /\ mountpointsJSON = EmptyOutput
    /\ mountpoints = <<>>
    /\ calls = <<>>
    /\ last = NoCall
    /\ bestEffortFailed = FALSE
    /\ failure = "none"
    /\ nixOSConfigDefault = <<>>
    /\ fileOps = <<>>
    /\ nixOSConfig = <<>>
    /\ printed = <<>>
    /\ hostIdInjected = <<>>
    /\ status = "running"

NextPatch ==
    \/ GenerateConfig
    \/ PatchHostID
    \/ Install

SpecPatch == InitPatch /\ [][NextPatch]_vars

(***************************************************************************)
(* The resolver on its own: GetMountpoints as Run calls it at installer.go *)
(* 200-207, applied to any identifier and any snapshot lsblk can print.    *)
(***************************************************************************)
Identifiers ==
    {root \o bus \o serial :
        root \in {<<>>, <<ById>>},
        bus \in {<<>>, <<"usb-">>, <<"nvme-">>, <<"USB-">>, <<"NVME-">>},
        serial \in {<<"A">>, <<"a">>, <<"B", "2">>, <<"b", "2">>}}

InitResolve ==
    /\ execute \in BOOLEAN
    /\ executeInstall = FALSE
    /\ gateway = "part_005"
    /\ pc = "ResolveUEFI"
    /\ i = 1
    /\ d = 1
    /\ configFile \in {[TemplateDocument EXCEPT !.uefiDisk = id] : id \in Identifiers}
    /\ configData = configFile
    /\ mountpointsJSON \in Snapshots
    /\ mountpoints = <<>>
    /\ calls = <<>>
    /\ last = NoCall
    /\ bestEffortFailed = FALSE
    /\ failure = "none"
    /\ nixOSConfigDefault = <<>>
    /\ fileOps = <<>>
    /\ nixOSConfig = <<>>
    /\ printed = <<>>
    /\ hostIdInjected = <<>>
    /\ status = "running"

SpecResolve == InitResolve /\ [][ResolveUEFI]_vars

(***************************************************************************)
(* The reset of the data disks on its own: the loop at installer.go        *)
(* 363-395 and the rescan and pool creation that follow it, entered with   *)
(* no command failed so far.                                               *)
(***************************************************************************)
InitReset ==
    /\ execute \in BOOLEAN
    /\ executeInstall = FALSE
    /\ gateway = "part_005"
    /\ pc = "ResolveZFS"
    /\ i = 1
    /\ d = 1
    /\ configFile \in {[TemplateDocument EXCEPT !.disks = ds, !.mirror = Len(ds) > 1] :
                          ds \in SeqsUpTo({DevB, DevC}, MaxDisks) \ {<<>>}}
    /\ configData = configFile
    /\ mountpointsJSON \in Snapshots
    /\ mountpoints = <<>>
    /\ calls = <<>>
    /\ last = NoCall
    /\ bestEffortFailed = FALSE
    /\ failure = "none"
    /\ nixOSConfigDefault = <<>>
    /\ fileOps = <<>>
    /\ nixOSConfig = <<>>
    /\ printed = <<>>
    /\ hostIdInjected = <<>>
    /\ status = "running"

NextReset ==
    \/ ResolveZFS
    \/ UnmountAll
    \/ ResetDisk
    \/ CreatePool

SpecReset == InitReset /\ [][NextReset]_vars

(***************************************************************************)
(* Run invoked with no command-line argument: flag.Parse leaves every flag *)
(* at its default (installer.go 36-60: -config config.yaml, -run false,    *)
(* -install false) and Run goes on from there.                             *)
(***************************************************************************)
InitNoArgs ==
    /\ execute = FALSE
    /\ executeInstall = FALSE
    /\ gateway \in Gateways
    /\ pc = "ReadConfig"
    /\ i = 1
    /\ d = 1
    /\ configFile = NoConfig
    /\ configData = NoConfig
    /\ mountpointsJSON = EmptyOutput
    /\ mountpoints = <<>>
    /\ calls = <<>>
    /\ last = NoCall
    /\ bestEffortFailed = FALSE
    /\ failure = "none"
    /\ nixOSConfigDefault = <<>>
    /\ fileOps = <<>>
    /\ nixOSConfig = <<>>
    /\ printed = <<>>
    /\ hostIdInjected = <<>>
    /\ status = "running"

SpecNoArgs == InitNoArgs /\ [][Next]_vars

(***************************************************************************)
(* Observations the properties are stated with.                            *)
(***************************************************************************)
Aborted == status \in {"panicked", "fatal"}

\* The calls whose command line starts with the given words.
CallsOf(prefix) ==
    {k \in 1..Len(calls) : IsPrefix(Words(prefix), calls[k].argv)}

ZpoolCreateCalls == CallsOf(<<"zpool", "create">>)

RedundancyWords == {W("mirror"), W("stripe")}

KeywordCount(argv) == Cardinality({j \in 1..Len(argv) : argv[j] \in RedundancyWords})

\* The last n words of a command line.
LastWords(argv, n) == SubSeq(argv, Len(argv) - n + 1, Len(argv))

\* A device file that is a block device: ModeDevice without ModeCharDevice.
IsBlockDevice(path) ==
    /\ Stat(path).err = ""
    /\ "ModeDevice" \in Stat(path).mode
    /\ "ModeCharDevice" \notin Stat(path).mode

\* A document the data model of a provisioning request rules out.
InvalidDocument(doc) ==
    \/ doc.flake = <<>>
    \/ ~IsBlockDevice(doc.uefiDisk)
    \/ \E k \in 1..Len(doc.disks) : ~IsBlockDevice(doc.disks[k])
    \/ Len(doc.disks) > 1 /\ doc.mirror = doc.stripe

\* The blocks of Run in source order, and whether the run has left a block
\* behind without being aborted.
BlockOrder ==
    <<"ReadConfig", "lsblk", "mkdir", "ResolveUEFI", "UnmountUEFI", "UEFI",
      "Destroy", "ResolveZFS", "UnmountZFS", "ResetDisk", "CreatePool",
      "Datasets", "Mount", "Generate", "Patch", "Install", "done">>

BlockIndex(label) == CHOOSE k \in 1..Len(BlockOrder) : BlockOrder[k] = label

Past(label) == ~Aborted /\ BlockIndex(pc) > BlockIndex(label)

\* The words of a command line, as a set.
WordsOf(argv) == {argv[j] : j \in 1..Len(argv)}

\* The calls that create a block-kind volume: zfs create with -V.
VolumeCalls == {k \in CallsOf(<<"zfs", "create">>) : W("-V") \in WordsOf(calls[k].argv)}

(***************************************************************************)
(* C1.  In a dry run no external program is executed, and every gateway    *)
(* call is made with the run's own mode.  (Stated as claimed; the          *)
(* inventory listing is called with a literal true.)                       *)
(***************************************************************************)
C1_DryRunExecutesNothing ==
    ~execute =>
        \A k \in 1..Len(calls) : ~calls[k].ran /\ calls[k].mode = execute

(***************************************************************************)
(* C2.  A strict command that exits non-zero leaves the run panicked, and  *)
(* a panicked run issues no further gateway call: nothing later, no retry, *)
(* no compensating command.                                                *)
(***************************************************************************)
C2_StrictFailureStops ==
    /\ [](last.policy = "strict" /\ last.nonzero => status = "panicked")
    /\ [][status = "panicked" => UNCHANGED <<calls, status>>]_vars

C2_Witness ==
    /\ execute
    /\ status = "panicked"
    /\ last.policy = "strict" /\ last.nonzero
    /\ Len(calls) > 2

(***************************************************************************)
(* C3.  A best-effort command that exits non-zero leaves the run running   *)
(* (so the run is not over: a later command follows), and a finished run   *)
(* in which only best-effort commands failed is completed.                 *)
(***************************************************************************)
C3_BestEffortNeverAborts ==
    /\ (last.policy = "silent" /\ last.nonzero => status = "running")
    /\ (status # "running" /\ bestEffortFailed /\ failure = "none"
            => status = "completed")

C3_Witness ==
    /\ execute
    /\ status = "completed"
    /\ bestEffortFailed

(***************************************************************************)
(* C4.  An umount that exits non-zero does not abort the run.  (Stated as  *)
(* claimed; UnmountAll issues its umounts through Execute.)                *)
(***************************************************************************)
C4_UnmountIsBestEffort ==
    \A k \in CallsOf(<<"umount">>) :
        (k = Len(calls) /\ last.nonzero) => ~Aborted

(***************************************************************************)
(* C5.  The pool-creation command line has the canonical order: create,    *)
(* -f, compression iff enabled, cipher / key format / key location iff     *)
(* encryption is enabled, the fixed tuning block, -R and the mount root,   *)
(* the pool name, at most one redundancy word, the data disks in order.    *)
(***************************************************************************)
C5_CanonicalOrder ==
    \A k \in ZpoolCreateCalls :
        \E keyword \in {<<>>} \cup {<<w>> : w \in RedundancyWords} :
            calls[k].argv =
                Words(<<"zpool", "create", "-f">>)
                \o (IF configData.compression
                    THEN Words(<<"-O", "compression=zstd-3">>) ELSE <<>>)
                \o (IF configData.encryption
                    THEN Words(<<"-O", "encryption=aes-256-gcm",
                                 "-O", "keyformat=passphrase",
                                 "-O", "keylocation=prompt">>)
                    ELSE <<>>)
                \o BaselineOptions
                \o <<W("-R"), W("/mnt/nixos"), configData.poolName>>
                \o keyword
                \o configData.disks

C5_Witness ==
    /\ ZpoolCreateCalls # {}
    /\ configData.compression /\ configData.encryption
    /\ configData.mirror /\ Len(configData.disks) = 2

(***************************************************************************)
(* C6.  As claimed: with more than one data disk there is exactly one      *)
(* redundancy word, right after the pool name and right before the first   *)
(* disk, "mirror" for a mirror and "stripe" for a stripe.                  *)
(***************************************************************************)
C6_KeywordForEveryMode ==
    \A k \in ZpoolCreateCalls :
        (Len(configData.disks) > 1 /\ configData.mirror # configData.stripe) =>
            /\ KeywordCount(calls[k].argv) = 1
            /\ LastWords(calls[k].argv, Len(configData.disks) + 2) =
                   <<configData.poolName,
                     IF configData.mirror THEN W("mirror") ELSE W("stripe")>>
                   \o configData.disks

(***************************************************************************)
(* C6, amended.  With more than one data disk: if the mirror flag is set   *)
(* the only redundancy word is "mirror", right after the pool name and     *)
(* right before the first disk; if only the stripe flag is set there is no *)
(* redundancy word and the disks follow the pool name directly.            *)
(***************************************************************************)
C6_MirrorWordOnly ==
    \A k \in ZpoolCreateCalls :
        Len(configData.disks) > 1 =>
            /\ configData.mirror =>
                 /\ KeywordCount(calls[k].argv) = 1
                 /\ LastWords(calls[k].argv, Len(configData.disks) + 2) =
                        <<configData.poolName, W("mirror")>> \o configData.disks
            /\ (configData.stripe /\ ~configData.mirror) =>
                 /\ KeywordCount(calls[k].argv) = 0
                 /\ LastWords(calls[k].argv, Len(configData.disks) + 1) =
                        <<configData.poolName>> \o configData.disks

C6_Witness ==
    /\ ZpoolCreateCalls # {}
    /\ Len(configData.disks) > 1
    /\ configData.stripe /\ ~configData.mirror

(***************************************************************************)
(* C7.  With exactly one data disk, whatever the mirror and stripe flags,  *)
(* the command line holds no redundancy word and ends with the mount root, *)
(* the pool name and that one disk.                                        *)
(***************************************************************************)
C7_SingleDiskNoKeyword ==
    \A k \in ZpoolCreateCalls :
        Len(configData.disks) = 1 =>
            /\ KeywordCount(calls[k].argv) = 0
            /\ LastWords(calls[k].argv, 3) =
                   <<W("/mnt/nixos"), configData.poolName, configData.disks[1]>>

C7_Witness ==
    /\ ZpoolCreateCalls # {}
    /\ Len(configData.disks) = 1
    /\ configData.mirror /\ configData.stripe

C9_InvalidDocumentRejected ==
    (configFile.kind = "config" /\ InvalidDocument(configFile)) =>
        /\ configData = NoConfig
        /\ status = "fatal"
        /\ calls = <<>>

(***************************************************************************)
(* C10.  As claimed: when swap is disabled in the request, no command      *)
(* creating a volume (zfs create -V) is issued.                            *)
(***************************************************************************)
C10_NoSwapVolumeWhenDisabled ==
    (configData # NoConfig /\ ~configData.swapEnabled) =>
        CallsOf(<<"zfs", "create", "-V">>) = {}

(***************************************************************************)
(* C11.  When swap is enabled the run issues at most one volume creation,  *)
(* and exactly one once the dataset block is behind it; that command is    *)
(* zfs create -V <swap size> <pool>/swap, it really runs iff the run is a  *)
(* commit, it has no -o or mountpoint word, and no mount command names the *)
(* swap volume.                                                            *)
(***************************************************************************)
C11_OneSwapVolume ==
    (configData # NoConfig /\ configData.swapEnabled) =>
        /\ Cardinality(VolumeCalls) <= 1
        /\ Past("Datasets") => Cardinality(VolumeCalls) = 1
        /\ \A k \in VolumeCalls :
              /\ calls[k].argv = <<W("zfs"), W("create"), W("-V"),
                                   configData.swapSize,
                                   configData.poolName \o <<"/", "swap">>>>
              /\ calls[k].ran = execute
              /\ W("-o") \notin WordsOf(calls[k].argv)
              /\ W("mountpoint=legacy") \notin WordsOf(calls[k].argv)
        /\ \A k \in CallsOf(<<"mount">>) :
              configData.poolName \o <<"/", "swap">> \notin WordsOf(calls[k].argv)

C11_Witness ==
    /\ execute
    /\ configData # NoConfig /\ configData.swapEnabled
    /\ status = "completed"
    /\ VolumeCalls # {}
    /\ CallsOf(<<"mount">>) # {}

(***************************************************************************)
(* C12.  The mount commands come in dependency order: the first mounts the *)
(* root dataset at the provisioning root, the second the boot dataset at   *)
(* boot, the third the EFI partition (vfat, restrictive masks) at          *)
(* boot/efi, and the others follow; no path is the target of two mounts,   *)
(* and every ancestor path of a mount's target that is itself a mount      *)
(* target has been mounted by an earlier command.                          *)
(***************************************************************************)
IsMountCall(call) == IsPrefix(<<W("mount")>>, call.argv)

\* The mount commands issued so far, in order.
MountCalls == SelectSeq(calls, IsMountCall)

MountTarget(call) == call.argv[Len(call.argv)]

MountSource(call) == call.argv[Len(call.argv) - 1]

\* The mount targets that lie above a path.
AncestorPaths(p) ==
    CASE p = W("/mnt/nixos") -> {}
      [] p \in {W("/mnt/nixos/boot/efi"), W("/mnt/nixos/boot/nixos")} ->
             {W("/mnt/nixos"), W("/mnt/nixos/boot")}
      [] p = W("/mnt/nixos/var/lib") -> {W("/mnt/nixos"), W("/mnt/nixos/var")}
      [] p = W("/mnt/nixos/var/lib/docker") ->
             {W("/mnt/nixos"), W("/mnt/nixos/var"), W("/mnt/nixos/var/lib")}
      [] OTHER -> {W("/mnt/nixos")}

C12_MountOrder ==
    LET ms == MountCalls
    IN  \A k \in 1..Len(ms) :
          /\ k = 1 =>
                /\ MountTarget(ms[k]) = W("/mnt/nixos")
                /\ MountSource(ms[k]) = configData.poolName \o <<"/", "root">>
          /\ k = 2 =>
                /\ MountTarget(ms[k]) = W("/mnt/nixos/boot")
                /\ MountSource(ms[k]) = configData.poolName \o <<"/", "boot">>
          /\ k = 3 =>
                /\ MountTarget(ms[k]) = W("/mnt/nixos/boot/efi")
                /\ MountSource(ms[k]) = configData.uefiDisk \o <<"-part1">>
                /\ W("vfat") \in WordsOf(ms[k].argv)
                /\ W("fmask=0077,dmask=0077,iocharset=iso8859-1,X-mount.mkdir")
                      \in WordsOf(ms[k].argv)
          /\ k > 3 =>
                MountTarget(ms[k]) \notin {W("/mnt/nixos"), W("/mnt/nixos/boot"),
                                           W("/mnt/nixos/boot/efi")}
          /\ \A j \in 1..Len(ms) : j # k => MountTarget(ms[j]) # MountTarget(ms[k])
          /\ \A a \in AncestorPaths(MountTarget(ms[k])) :
                \E j \in 1..(k - 1) : MountTarget(ms[j]) = a

C12_Witness ==
    /\ execute
    /\ status = "completed"
    /\ configData.configEnabled
    /\ Len(MountCalls) = 10
    /\ MountTarget(MountCalls[9]) = W("/mnt/nixos/var/lib/docker")

(***************************************************************************)
(* C13.  In a dry run the patch step does nothing: configuration.nix is    *)
(* neither read nor written, head -c 8 /etc/machine-id is never called,    *)
(* and the step from the patch block leads straight to the install block   *)
(* with the call log, the files and the status unchanged.                  *)
(***************************************************************************)
C13_DryRunSkipsPatch ==
    /\ [](~execute => /\ fileOps = <<>>
                      /\ nixOSConfigDefault = <<>> /\ nixOSConfig = <<>>
                      /\ hostIdInjected = <<>>
                      /\ CallsOf(<<"head">>) = {})
    /\ [][(~execute /\ pc = "Patch") =>
            (pc' = "Install" /\ UNCHANGED <<calls, last, fileOps, nixOSConfig,
                                            failure, status>>)]_vars

C13_Witness ==
    /\ ~execute
    /\ pc = "Install"
    /\ status = "running"
    /\ CallsOf(<<"nixos-generate-config">>) # {}

RECURSIVE InsertAfterFirst(_, _)
InsertAfterFirst(text, line) ==
    IF text = <<>> THEN <<>>
    ELSE IF Head(text) = Marker THEN <<Marker>> \o line \o Tail(text)
    ELSE <<Head(text)>> \o InsertAfterFirst(Tail(text), line)

InsertedLines(text) ==
    Cardinality({j \in 1..Len(text) : text[j] = "  networking.hostId = \""})

C15_OneInsertion ==
    (execute /\ Past("Patch") /\ Marker \in WordsOf(nixOSConfigDefault)) =>
        /\ nixOSConfig =
               InsertAfterFirst(nixOSConfigDefault,
                                <<"  networking.hostId = \"">> \o hostIdInjected
                                    \o <<"\";\n", "\n">>)
        /\ InsertedLines(nixOSConfig) = 1

(***************************************************************************)
(* C16.  A failed read or write of configuration.nix (which only a commit  *)
(* run attempts) leaves the run fatal with no nixos-install call made, and *)
(* a fatal run makes no further gateway call or file access, whatever the  *)
(* install flag.                                                           *)
(***************************************************************************)
C16_FileFailureAborts ==
    /\ [](failure = "file" =>
            /\ execute
            /\ status = "fatal"
            /\ CallsOf(<<"nixos-install">>) = {})
    /\ [][status = "fatal" => UNCHANGED <<calls, fileOps, printed, status>>]_vars

C16_Witness ==
    /\ execute /\ executeInstall
    /\ failure = "file"
    /\ fileOps = <<"ReadFile", "WriteFile">>
    /\ status = "fatal"

(***************************************************************************)
(* C17.  nixos-install is called only when the install flag is set, at     *)
(* most once and as the last gateway call, with --root /mnt/nixos and the  *)
(* configured flake; it really runs iff the run is a commit; it comes      *)
(* after nixos-generate-config and, in a commit, after configuration.nix   *)
(* was read and written.  A completed run has called it iff the install    *)
(* flag is set, and has printed the manual install command iff it is not.  *)
(***************************************************************************)
C17_InstallLast ==
    LET ins == CallsOf(<<"nixos-install">>)
    IN  /\ ins # {} =>
              /\ executeInstall
              /\ ins = {Len(calls)}
              /\ calls[Len(calls)].argv =
                     Words(<<"nixos-install", "--verbose", "--root", "/mnt/nixos",
                             "--impure", "--flake">>) \o <<configData.flake>>
              /\ calls[Len(calls)].ran = execute
              /\ \E g \in CallsOf(<<"nixos-generate-config">>) : g < Len(calls)
              /\ execute => fileOps = <<"ReadFile", "WriteFile">>
        /\ status = "completed" =>
              /\ (ins # {}) = executeInstall
              /\ printed = IF executeInstall THEN <<>>
                           ELSE Words(<<"sudo", "-E", "nixos-install", "--verbose",
                                        "--root", "/mnt/nixos", "--impure",
                                        "--flake">>) \o <<configData.flake>>
        /\ printed # <<>> => status = "completed" /\ ~executeInstall

C17_Witness ==
    /\ execute /\ executeInstall
    /\ status = "completed"
    /\ CallsOf(<<"nixos-install">>) # {}
    /\ fileOps = <<"ReadFile", "WriteFile">>

(***************************************************************************)
(* C18.  As claimed: two identifiers that differ only in letter case       *)
(* and/or by a leading /dev/disk/by-id/, usb- or nvme- prefix resolve to   *)
(* the same mount-point list, on every snapshot.                           *)
(***************************************************************************)
\* An identifier with its by-id root and bus prefix removed, in lower case.
Bare(id) ==
    LET l == ToLower(TrimPrefix(id, <<ById>>))
    IN  IF IsPrefix(<<"usb-">>, l) THEN TrimPrefix(l, <<"usb-">>)
        ELSE TrimPrefix(l, <<"nvme-">>)

SameDevice(a, b) == Bare(a) = Bare(b)

C18_ResolutionInsensitive ==
    pc = "UnmountUEFI" =>
        \A other \in Identifiers :
            SameDevice(other, configData.uefiDisk) =>
                GetMountpoints(other, mountpointsJSON).mountpoints = mountpoints

(***************************************************************************)
(* C19.  As claimed: the resolver never ends a run, in a dry run or in a   *)
(* commit: GetMountpoints returns no error on the snapshot Run captured.   *)
(***************************************************************************)
C19_ResolverNeverAborts ==
    failure # "resolver"

(***************************************************************************)
(* C20.  In the reset of the data disks, a zpool labelclear that exits     *)
(* non-zero leaves the run running inside the loop (the zap of the same    *)
(* disk is next); the run is never aborted unless a strict command or the  *)
(* resolver failed; and when the loop is left the next call is the         *)
(* partprobe rescan.                                                       *)
(***************************************************************************)
C20_LabelclearFailureIsHarmless ==
    /\ (/\ calls # <<>>
        /\ IsPrefix(Words(<<"zpool", "labelclear">>), calls[Len(calls)].argv)
        /\ last.nonzero)
            => /\ status = "running"
               /\ pc = "ResetDisk" /\ i = 2
    /\ failure = "none" => ~Aborted
    /\ (pc = "CreatePool" /\ i = 2) =>
            /\ calls[Len(calls)].argv = <<W("partprobe")>>
            /\ calls[Len(calls) - 1].argv =
                   <<W("sgdisk"), W("--zap-all"),
                     configData.disks[Len(configData.disks)]>>

C20_Witness ==
    /\ execute
    /\ bestEffortFailed /\ ~last.nonzero
    /\ CallsOf(<<"umount">>) = {}
    /\ pc = "CreatePool" /\ i = 2
    /\ status = "running"

(***************************************************************************)
(* C21.  As claimed, the terminal states: a run is aborted iff a strict    *)
(* command (an output capture included) failed, the configuration document *)
(* was rejected, or configuration.nix could not be read or written; a run  *)
(* that is not aborted and has stopped is completed, at the end of Run,    *)
(* with the configuration generated and the installer called if requested. *)
(***************************************************************************)
C21_TerminalStates ==
    /\ Aborted <=> failure \in {"command", "config", "file"}
    /\ status = "completed" =>
          /\ pc = "done"
          /\ CallsOf(<<"nixos-generate-config">>) # {}
          /\ executeInstall => CallsOf(<<"nixos-install">>) # {}

(***************************************************************************)
(* C22.  As claimed: invoked with no argument, the program only prints     *)
(* usage and exits with status 0: the configuration is never read, no      *)
(* gateway call (inventory listing, mkdir) is made, and the run does not   *)
(* end in a fatal exit.                                                    *)
(***************************************************************************)
C22_NoArgumentsOnlyUsage ==
    /\ configFile = NoConfig
    /\ calls = <<>>
    /\ ~Aborted

(***************************************************************************)
(* C23.  As claimed: an output-capturing call runs its program iff the     *)
(* mode it is given is commit; the inventory listing, called with true,    *)
(* has run, and when lsblk exited 0 the snapshot is what it printed.       *)
(***************************************************************************)
C23_CaptureObeysMode ==
    /\ \A k \in 1..Len(calls) :
          calls[k].policy = "capture" => calls[k].ran = calls[k].mode
    /\ (Len(calls) >= 1 /\ ~(Len(calls) = 1 /\ last.nonzero)) =>
          mountpointsJSON.kind = "json"

(***************************************************************************)
(* C24.  As claimed: a dry run on a valid request is never aborted, and    *)
(* when it stops it is completed with every block of Run behind it.        *)
(***************************************************************************)
C24_DryRunCompletes ==
    (~execute /\ configFile.kind = "config" /\ ~InvalidDocument(configFile)) =>
        /\ ~Aborted
        /\ pc = "done" => status = "completed"

(***************************************************************************)
(* C25.  As claimed: an sgdisk --zap-all that exits non-zero, on the boot  *)
(* device or on a data disk, does not abort the run.                       *)
(***************************************************************************)
C25_ZapIsBestEffort ==
    (/\ calls # <<>>
     /\ IsPrefix(Words(<<"sgdisk", "--zap-all">>), calls[Len(calls)].argv)
     /\ last.nonzero) => ~Aborted

(***************************************************************************)
(* The commands of the data-disk reset, as they appear in the call log.    *)
(***************************************************************************)
IsUmount(call) == IsPrefix(Words(<<"umount">>), call.argv)

IsLabelclear(call) == IsPrefix(Words(<<"zpool", "labelclear", "-f">>), call.argv)

IsZap(call) == IsPrefix(Words(<<"sgdisk", "--zap-all">>), call.argv)

IsRescan(call) == call.argv = <<W("partprobe")>>

LastWord(call) == call.argv[Len(call.argv)]

(***************************************************************************)
(* C26.  As claimed: in the reset of a data disk the label is cleared      *)
(* before the disk's mounts are unmounted: an umount is issued only after  *)
(* a labelclear with no zap in between.                                    *)
(***************************************************************************)
C26_ClearThenUnmount ==
    LET n == Len(calls)
    IN  (n >= 1 /\ IsUmount(calls[n])) =>
            \E j \in 1..(n - 1) :
                /\ IsLabelclear(calls[j])
                /\ \A z \in (j + 1)..(n - 1) : ~IsZap(calls[z])

(***************************************************************************)
(* C26, amended.  For every data disk, in the order of the request: the    *)
(* umounts of the mount points resolved for the disk come first, then      *)
(* zpool labelclear of the disk, then sgdisk --zap-all of the same disk;   *)
(* partprobe is called once, right after the zap of the last disk, when    *)
(* every disk has been zapped, and no reset command follows it.            *)
(***************************************************************************)
C26_UnmountThenClearThenZap ==
    LET n == Len(calls)
        zaps == SelectSeq(calls, IsZap)
        rescans == SelectSeq(calls, IsRescan)
    IN  /\ (n >= 1 /\ IsUmount(calls[n])) =>
              (n = 1 \/ IsUmount(calls[n - 1]) \/ IsZap(calls[n - 1]))
        /\ (n >= 1 /\ IsLabelclear(calls[n])) =>
              /\ LastWord(calls[n]) = configData.disks[Len(zaps) + 1]
              /\ n > Len(mountpoints)
              /\ \A k \in 1..Len(mountpoints) :
                    calls[n - Len(mountpoints) + k - 1].argv =
                        Words(<<"umount", mountpoints[k]>>)
              /\ n - Len(mountpoints) > 1 => IsZap(calls[n - Len(mountpoints) - 1])
        /\ (n >= 1 /\ IsZap(calls[n])) =>
              /\ n >= 2 /\ IsLabelclear(calls[n - 1])
              /\ LastWord(calls[n - 1]) = LastWord(calls[n])
              /\ LastWord(calls[n]) = configData.disks[Len(zaps)]
        /\ (n >= 1 /\ IsRescan(calls[n])) =>
              /\ n >= 2 /\ IsZap(calls[n - 1])
              /\ [k \in 1..Len(zaps) |-> LastWord(zaps[k])] = configData.disks
        /\ Len(rescans) <= 1
        /\ (n >= 1 /\ Len(rescans) = 1) =>
              ~(IsUmount(calls[n]) \/ IsLabelclear(calls[n]) \/ IsZap(calls[n]))

C26_Witness ==
    /\ execute
    /\ Len(configData.disks) = 2
    /\ calls # <<>> /\ IsRescan(calls[Len(calls)])
    /\ Len(SelectSeq(calls, IsUmount)) >= 2

(***************************************************************************)
(* C27.  When zpool create is issued, every data disk of the request has   *)
(* been reset, in order (labelclear directly followed by the zap of the    *)
(* same disk), no strict command has failed, and the call just before it   *)
(* is the partprobe that follows the loop; a run that has not come to the  *)
(* pool block, aborted in the reset or not, holds no zpool create call.    *)
(***************************************************************************)
IsZpoolCreate(call) == IsPrefix(Words(<<"zpool", "create">>), call.argv)

C27_PoolAfterReset ==
    LET n == Len(calls)
        clears == SelectSeq(calls, IsLabelclear)
    IN  /\ (n >= 1 /\ IsZpoolCreate(calls[n])) =>
              /\ n >= 2 /\ IsRescan(calls[n - 1])
              /\ [k \in 1..Len(clears) |-> LastWord(clears[k])] = configData.disks
              /\ \A j \in 1..(n - 1) :
                    IsLabelclear(calls[j]) =>
                        /\ IsZap(calls[j + 1])
                        /\ LastWord(calls[j + 1]) = LastWord(calls[j])
              /\ failure = "none" \/ (failure = "command" /\ last.nonzero)
              /\ \A j \in 1..(n - 1) : calls[j].ran = execute \/ calls[j].policy = "capture"
        /\ BlockIndex(pc) < BlockIndex("CreatePool") =>
              \A j \in 1..n : ~IsZpoolCreate(calls[j])

C27_Witness ==
    /\ execute
    /\ calls # <<>> /\ IsZpoolCreate(calls[Len(calls)])
    /\ Len(configData.disks) = 2
    /\ ~last.nonzero
    /\ status = "running"

(***************************************************************************)
(* C28.  When a destructive command is issued against the boot device      *)
(* (sgdisk, parted, mkfs on it or on one of its partitions) or against a   *)
(* data disk (zpool labelclear, sgdisk), an umount has already been issued *)
(* for every mount point the resolver returns for that device on the       *)
(* captured snapshot.                                                      *)
(***************************************************************************)
IsDestructive(call) ==
    \/ call.argv[1] \in {W("sgdisk"), W("parted"), W("mkfs.vfat"), W("mkfs.xfs")}
    \/ IsLabelclear(call)

\* The command line names the device or one of its partitions.
Names(call, device) ==
    \E j \in 1..Len(call.argv) :
        call.argv[j] \in {device, device \o <<"-part1">>, device \o <<"-part2">>}

RequestDevices == {configData.uefiDisk} \cup WordsOf(configData.disks)

C28_UnmountBeforeDestruction ==
    LET n == Len(calls)
    IN  (n >= 1 /\ IsDestructive(calls[n])) =>
            \A device \in RequestDevices :
                Names(calls[n], device) =>
                    LET mps == GetMountpoints(device, mountpointsJSON).mountpoints
                    IN  \A k \in 1..Len(mps) :
                            \E j \in 1..(n - 1) :
                                calls[j].argv = Words(<<"umount", mps[k]>>)

C28_Witness ==
    /\ execute
    /\ calls # <<>> /\ IsLabelclear(calls[Len(calls)])
    /\ GetMountpoints(LastWord(calls[Len(calls)]), mountpointsJSON).mountpoints # <<>>
    /\ GetMountpoints(configData.uefiDisk, mountpointsJSON).mountpoints = <<>>

(***************************************************************************)
(* C29.  As claimed: every umount a run issues targets a mount point of    *)
(* an inventory entry that is the boot device or one of the request's data *)
(* disks, i.e. whose identifier, prefixes and letter case apart, is the    *)
(* requested one.                                                          *)
(***************************************************************************)
\* The mount points of the snapshot's entries that are the given device.
OwnMountpoints(device) ==
    IF mountpointsJSON.kind # "json" THEN {}
    ELSE UNION {{mp \in WordsOf(mountpointsJSON.blockdevices[e].mountpoints) : mp # ""} :
                  e \in {x \in 1..Len(mountpointsJSON.blockdevices) :
                            Bare(mountpointsJSON.blockdevices[x].id) = Bare(device)}}

C29_UnmountOnlyOwnMounts ==
    LET n == Len(calls)
    IN  (n >= 1 /\ IsUmount(calls[n])) =>
            \E device \in RequestDevices :
                LastWord(calls[n]) \in {W(mp) : mp \in OwnMountpoints(device)}

(***************************************************************************)
(* C30.  Storage objects are created before they are used.  When a zfs     *)
(* create is issued the pool has been created and so have the parent       *)
(* datasets (var before var/lib before var/lib/docker), and a filesystem   *)
(* dataset is created with -o mountpoint=legacy; when a mount is issued    *)
(* its source has been created (a dataset) or formatted (mkfs.vfat for     *)
(* part1, mkfs.xfs for part2); once the mount block is behind, every       *)
(* created filesystem dataset has been mounted exactly once, at its own    *)
(* path under the provisioning root.                                       *)
(***************************************************************************)
IsZfsCreate(call) == IsPrefix(Words(<<"zfs", "create">>), call.argv)

IsVolume(call) == W("-V") \in WordsOf(call.argv)

\* The filesystem datasets and the path each belongs at.
DatasetTargets ==
    {<<"root", "/mnt/nixos">>, <<"boot", "/mnt/nixos/boot">>,
     <<"home", "/mnt/nixos/home">>, <<"nix", "/mnt/nixos/nix">>,
     <<"tmp", "/mnt/nixos/tmp">>, <<"var", "/mnt/nixos/var">>,
     <<"var/lib", "/mnt/nixos/var/lib">>,
     <<"var/lib/docker", "/mnt/nixos/var/lib/docker">>}

ParentDatasets(dataset) ==
    CASE dataset = "var/lib" -> {"var"}
      [] dataset = "var/lib/docker" -> {"var", "var/lib"}
      [] OTHER -> {}

PathOf(dataset) == configData.poolName \o <<"/", dataset>>

C30_CreatedBeforeUsed ==
    LET n == Len(calls)
        creates == SelectSeq(calls, IsZfsCreate)
        mounts == SelectSeq(calls, IsMountCall)
    IN  /\ (n >= 1 /\ IsZfsCreate(calls[n])) =>
              /\ \E j \in 1..(n - 1) : IsZpoolCreate(calls[j])
              /\ ~IsVolume(calls[n]) =>
                    /\ calls[n].argv = <<W("zfs"), W("create"), W("-o"),
                                         W("mountpoint=legacy"), LastWord(calls[n])>>
                    /\ \E dt \in DatasetTargets : LastWord(calls[n]) = PathOf(dt[1])
              /\ \A dt \in DatasetTargets :
                    LastWord(calls[n]) = PathOf(dt[1]) =>
                        \A p \in ParentDatasets(dt[1]) :
                            \E j \in 1..(Len(creates) - 1) :
                                LastWord(creates[j]) = PathOf(p)
        /\ (n >= 1 /\ IsMountCall(calls[n])) =>
              /\ W("zfs") \in WordsOf(calls[n].argv) =>
                    \E j \in 1..Len(creates) :
                        /\ ~IsVolume(creates[j])
                        /\ LastWord(creates[j]) = MountSource(calls[n])
              /\ W("vfat") \in WordsOf(calls[n].argv) =>
                    \E j \in 1..(n - 1) :
                        calls[j].argv[1] = W("mkfs.vfat")
                            /\ LastWord(calls[j]) = MountSource(calls[n])
              /\ W("xfs") \in WordsOf(calls[n].argv) =>
                    \E j \in 1..(n - 1) :
                        calls[j].argv[1] = W("mkfs.xfs")
                            /\ LastWord(calls[j]) = MountSource(calls[n])
              /\ \/ W("zfs") \in WordsOf(calls[n].argv)
                 \/ W("vfat") \in WordsOf(calls[n].argv)
                 \/ W("xfs") \in WordsOf(calls[n].argv)
        /\ Past("Mount") =>
              /\ \A dt \in DatasetTargets :
                    /\ \E j \in 1..Len(creates) : LastWord(creates[j]) = PathOf(dt[1])
                    /\ Cardinality({j \in 1..Len(mounts) :
                                       MountSource(mounts[j]) = PathOf(dt[1])}) = 1
                    /\ \A j \in 1..Len(mounts) :
                          MountSource(mounts[j]) = PathOf(dt[1]) =>
                              MountTarget(mounts[j]) = W(dt[2])
              /\ Len(creates) = Cardinality(DatasetTargets) + 1

C30_Witness ==
    /\ execute
    /\ status = "completed"
    /\ configData.configEnabled
    /\ Len(SelectSeq(calls, IsMountCall)) = 10
    /\ Len(SelectSeq(calls, IsZfsCreate)) = 9

(***************************************************************************)
(* C31.  As claimed: with the nixos-config partition disabled no command   *)
(* names <uefi>-part2 or /mnt/nixos/boot/nixos; with it enabled, the       *)
(* partition is created after the esp flag is set, formatted after         *)
(* <uefi>-part1 is formatted, and mounted after <uefi>-part1 is mounted.   *)
(***************************************************************************)
RefersToConfigPartition(call) ==
    \/ configData.uefiDisk \o <<"-part2">> \in WordsOf(call.argv)
    \/ W("/mnt/nixos/boot/nixos") \in WordsOf(call.argv)
    \/ W("nixos-config") \in WordsOf(call.argv)

C31_ConfigPartitionAllOrNothing ==
    LET n == Len(calls)
        c == calls[n]
    IN  n >= 1 =>
          /\ ~configData.configEnabled => ~RefersToConfigPartition(c)
          /\ (c.argv[1] = W("parted") /\ W("nixos-config") \in WordsOf(c.argv)) =>
                \E j \in 1..(n - 1) :
                    /\ calls[j].argv[1] = W("parted")
                    /\ W("esp") \in WordsOf(calls[j].argv)
          /\ c.argv[1] = W("mkfs.xfs") =>
                \E j \in 1..(n - 1) :
                    /\ calls[j].argv[1] = W("mkfs.vfat")
                    /\ LastWord(calls[j]) = configData.uefiDisk \o <<"-part1">>
          /\ (IsMountCall(c) /\ W("xfs") \in WordsOf(c.argv)) =>
                \E j \in 1..(n - 1) :
                    /\ IsMountCall(calls[j])
                    /\ MountSource(calls[j]) = configData.uefiDisk \o <<"-part1">>

(***************************************************************************)
(* C32.  As claimed: deleting the inserted host-id line from the text a    *)
(* commit run wrote gives back the text it read, exactly; a text without   *)
(* the marker is written back unchanged.                                   *)
(***************************************************************************)
\* The text without the first occurrence of the given tokens.
RECURSIVE DeleteFirst(_, _)
DeleteFirst(text, tokens) ==
    IF text = <<>> THEN <<>>
    ELSE IF IsPrefix(tokens, text) THEN SubSeq(text, Len(tokens) + 1, Len(text))
    ELSE <<Head(text)>> \o DeleteFirst(Tail(text), tokens)

HostIdLine == <<"  networking.hostId = \"">> \o hostIdInjected \o <<"\";\n">>

C32_DeletingLineRestores ==
    (execute /\ Past("Patch")) =>
        /\ DeleteFirst(nixOSConfig, HostIdLine) = nixOSConfigDefault
        /\ Marker \notin WordsOf(nixOSConfigDefault) => nixOSConfig = nixOSConfigDefault

(***************************************************************************)
(* C32, amended.  What the patch inserts after a marker is the host-id     *)
(* line followed by one empty line; deleting, after every marker of the    *)
(* written text, that line and the empty line gives back the text read,    *)
(* exactly; a text without the marker is written back unchanged.           *)
(***************************************************************************)
RECURSIVE DeleteInsertions(_, _)
DeleteInsertions(text, tokens) ==
    IF text = <<>> THEN <<>>
    ELSE IF Head(text) = Marker /\ IsPrefix(tokens, Tail(text))
         THEN <<Marker>> \o DeleteInsertions(SubSeq(text, Len(tokens) + 2, Len(text)),
                                               tokens)
         ELSE <<Head(text)>> \o DeleteInsertions(Tail(text), tokens)

C32_DeletingInsertionsRestores ==
    (execute /\ Past("Patch")) =>
        /\ DeleteInsertions(nixOSConfig, HostIdLine \o <<"\n">>) = nixOSConfigDefault
        /\ Marker \notin WordsOf(nixOSConfigDefault) => nixOSConfig = nixOSConfigDefault
        /\ Len(nixOSConfig) = Len(nixOSConfigDefault)
              + (Len(HostIdLine) + 1)
                  * Cardinality({j \in 1..Len(nixOSConfigDefault) :
                                   nixOSConfigDefault[j] = Marker})

C32_Witness ==
    /\ execute /\ Past("Patch")
    /\ fileOps = <<"ReadFile", "WriteFile">>
    /\ nixOSConfigDefault = <<"x", Marker>>
    /\ hostIdInjected = W("abc12345")

====
